---- MODULE Spec2Model ----
(***************************************************************************)
(* A model of sys/kern/kern_procctl.c: the procctl(2) operations on the    *)
(* process tree (protection propagation, reaper acquire / release / status *)
(* / getpids / kill, trace control) and the dispatcher kern_procctl.       *)
(*                                                                         *)
(* A struct proc is a slot of the process table `proc`; a slot is what a   *)
(* `struct proc *` points to, and it is reused by a later fork once its    *)
(* process has exited, so a pointer kept across an unlocked window may     *)
(* name another process than the one it was taken from.  Process creation  *)
(* and exit (kern_fork.c, kern_exit.c) and reaper_abandon_children are not *)
(* part of kern_procctl.c; they are modelled from the specification.       *)
(***************************************************************************)
EXTENDS Integers, Sequences, FiniteSets, TLC

(* ------------------------------ bounds --------------------------------- *)
\* Number of struct proc slots (live processes at any instant).
MaxProc == 4
\* Largest number of processes alive at once while processes come and go.
MaxLive == 3
\* Largest pid fork hands out (lastpid never wraps): bounds the forks.
MaxPid == 4
\* The same where getpids runs beside forks and exits: a record is reused and
\* its new process has a descendant, which takes four forks.
MaxPidGp == 5
\* Largest rp_count a getpids request is made with.
MaxCount == 1
\* The processes alive at once beside trace_ctl and trace_status.
MaxTrace == 2
\* The processes alive at once beside a call on a process group
MaxGroup == 4

\* The threads that are inside kern_procctl at once
MaxThreads == 2

(* ------------------------- program constants --------------------------- *)
EPERM == 1
ESRCH == 3
EBUSY == 16
EINVAL == 22
ECAPMODE == 94
NULL == 0
\* The largest signal number, _SIG_MAXSIG.
SIG_MAXSIG == 128
\* The rk_fpid that names no process.
NOPID == -1
\* The slot of the permanent root reaper, init.
initproc == 1

Proc == 1..MaxProc

VARIABLES
    proc,       \* the process table: slot -> struct proc
    lastpid,    \* the pid the most recent fork handed out
    ret,        \* what the most recent kernel entry was and what it returned
    pc,         \* where the thread that steps through a procctl call is
    td,         \* curproc of that thread: the process it belongs to
    tp,         \* the target p that call was resolved to
    proctree_lock,  \* how that thread holds the tree lock
    plocks,     \* the processes whose PROC_LOCK that thread holds
    gp,         \* reap_getpids: its request, its locals and what it copied out
    rk,         \* reap_kill: its request and result rk, its locals, what it signalled
    pt,         \* protect_set: its request, the position of its walk, what it asked
    tc,         \* trace_ctl / trace_status: the request, the target before, the answer
    pg,         \* kern_procctl on a process group: the request, the loop's locals, the members gone through
    mt          \* the threads inside kern_procctl at once and the holders of the tree lock

treevars == <<proc, lastpid>>
callvars == <<pc, td, tp, proctree_lock, plocks>>
dispvars == <<tc, pg, mt>>
opvars == <<gp, rk, pt, dispvars>>
vars == <<proc, lastpid, ret, pc, td, tp, proctree_lock, plocks, gp, rk, pt, tc, pg, mt>>

(* ------------------------------ helpers -------------------------------- *)
SeqToSet(s) == {s[i] : i \in 1..Len(s)}

\* LIST_REMOVE: the list without element x.
LIST_REMOVE(s, x) == SelectSeq(s, LAMBDA y : y # x)

\* LIST_INSERT_HEAD
LIST_INSERT_HEAD(s, x) == <<x>> \o s

\* LIST_FIRST / LIST_NEXT on a list kept as a sequence.
LIST_FIRST(s) == IF s = <<>> THEN NULL ELSE Head(s)

LIST_NEXT(s, x) ==
    IF \E i \in 1..(Len(s) - 1) : s[i] = x
    THEN s[(CHOOSE i \in 1..(Len(s) - 1) : s[i] = x) + 1]
    ELSE NULL

\* A struct proc that holds no process (never used, or freed by exit).
FreeProc ==
    [p_state |-> "FREE", p_pid |-> 0, p_pptr |-> NULL, p_children |-> <<>>,
     p_reaper |-> NULL, p_reaplist |-> <<>>, p_treeflag |-> {},
     p_reapsubtree |-> 0, p_flag |-> {}, p_flag2 |-> {}, p_traceflag |-> 0]

\* The live processes of a process table.
Live(pr) == {s \in Proc : pr[s].p_state # "FREE"}

\* pfind: the live process with this pid, or NULL.
pfind(pr, id) ==
    IF \E s \in Live(pr) : pr[s].p_pid = id
    THEN CHOOSE s \in Live(pr) : pr[s].p_pid = id
    ELSE NULL

\* proc_realparent: without ptrace reparenting the real parent is p_pptr.
proc_realparent(pr, p) == pr[p].p_pptr

(* ------------------ process creation and exit (spec) ------------------- *)
\* proc_reparent: move child under parent, at the head of its child list.
proc_reparent(pr, child, parent) ==
    IF pr[child].p_pptr = parent THEN pr
    ELSE LET a == [pr EXCEPT ![pr[child].p_pptr].p_children = LIST_REMOVE(@, child)]
         IN  [a EXCEPT ![child].p_pptr = parent,
                       ![parent].p_children = LIST_INSERT_HEAD(@, child)]

\* The loop of reaper_abandon_children over the members l of p's reap list:
\* each goes to p's reaper p1, at the head of p1's reap list, keeping its tag.
RECURSIVE AbandonLoop(_, _, _, _, _)
AbandonLoop(pr, p, p1, l, exiting) ==
    IF l = <<>> THEN pr
    ELSE LET p2 == Head(l)
             a  == [pr EXCEPT ![p].p_reaplist = LIST_REMOVE(@, p2),
                              ![p2].p_reaper = p1,
                              ![p1].p_reaplist = LIST_INSERT_HEAD(@, p2)]
             b  == IF exiting /\ a[p2].p_pptr = p THEN proc_reparent(a, p2, p1) ELSE a
         IN  AbandonLoop(b, p, p1, Tail(l), exiting)

\* reaper_abandon_children: p stops being a reaper; its reap list goes to its reaper.
reaper_abandon_children(pr, p, exiting) ==
    IF "P_TREE_REAPER" \notin pr[p].p_treeflag THEN pr
    ELSE LET a == AbandonLoop(pr, p, pr[p].p_reaper, pr[p].p_reaplist, exiting)
         IN  [a EXCEPT ![p].p_treeflag = @ \ {"P_TREE_REAPER"}]

\* The children of an exiting process go to their reaper.
RECURSIVE ReparentLoop(_, _)
ReparentLoop(pr, l) ==
    IF l = <<>> THEN pr
    ELSE ReparentLoop(proc_reparent(pr, Head(l), pr[Head(l)].p_reaper), Tail(l))

\* Process exit and the destruction of its record.
exit1(pr, p) ==
    LET a == reaper_abandon_children(pr, p, TRUE)
        b == ReparentLoop(a, a[p].p_children)
        c == [b EXCEPT ![b[p].p_pptr].p_children = LIST_REMOVE(@, p)]
        d == [c EXCEPT ![c[p].p_reaper].p_reaplist = LIST_REMOVE(@, p)]
    IN  [d EXCEPT ![p] = FreeProc]

\* Process creation: p1 forks the process of pid `pid` into the free slot p2.
\* The child is indexed under p1 if p1 is a reaper, else under p1's reaper;
\* it is born protected only if p1 has inherit-protected.
fork1(pr, p1, p2, pid) ==
    LET isreaper == "P_TREE_REAPER" \in pr[p1].p_treeflag
        reap == IF isreaper THEN p1 ELSE pr[p1].p_reaper
        inh  == "P2_INHERIT_PROTECTED" \in pr[p1].p_flag2
        new  == [p_state |-> "PRS_NORMAL", p_pid |-> pid, p_pptr |-> p1,
                 p_children |-> <<>>, p_reaper |-> reap, p_reaplist |-> <<>>,
                 p_treeflag |-> {},
                 p_reapsubtree |-> IF isreaper THEN pid ELSE pr[p1].p_reapsubtree,
                 p_flag |-> IF inh THEN {"P_PROTECTED"} ELSE {},
                 p_flag2 |-> pr[p1].p_flag2 \cap
                             {"P2_INHERIT_PROTECTED", "P2_NOTRACE", "P2_NOTRACE_EXEC"},
                 p_traceflag |-> 0]
        a == [pr EXCEPT ![p2] = new]
        b == [a EXCEPT ![p1].p_children = LIST_INSERT_HEAD(@, p2)]
    IN  [b EXCEPT ![reap].p_reaplist = LIST_INSERT_HEAD(@, p2)]

\* The slot a fork takes: the lowest free one.
FreeSlot(pr) == CHOOSE s \in Proc \ Live(pr) : \A t \in Proc \ Live(pr) : s <= t

(* --------------------------- reaper lifecycle -------------------------- *)
\* Faulty variant of reap_acquire: it also takes over the reaper field of
\* the children p already has, without moving them between reap lists.
reap_acquire_adopt(pr, curp, p) ==
    IF p # curp THEN [error |-> EPERM, proc |-> pr]
    ELSE IF "P_TREE_REAPER" \in pr[p].p_treeflag THEN [error |-> EBUSY, proc |-> pr]
    ELSE [error |-> 0,
          proc |-> [s \in Proc |->
                      IF s = p THEN [pr[s] EXCEPT !.p_treeflag = @ \cup {"P_TREE_REAPER"}]
                      ELSE IF pr[s].p_state # "FREE" /\ pr[s].p_pptr = p
                      THEN [pr[s] EXCEPT !.p_reaper = p]
                      ELSE pr[s]]]

\* Faulty variant of reap_acquire: no check for a process that is a reaper.
reap_acquire_nobusy(pr, curp, p) ==
    IF p # curp THEN [error |-> EPERM, proc |-> pr]
    ELSE [error |-> 0, proc |-> [pr EXCEPT ![p].p_treeflag = @ \cup {"P_TREE_REAPER"}]]

\* reap_acquire(td, p): curp is curproc, the process of the calling thread.
reap_acquire(pr, curp, p) ==
    IF p # curp THEN [error |-> EPERM, proc |-> pr]
    ELSE IF "P_TREE_REAPER" \in pr[p].p_treeflag THEN [error |-> EBUSY, proc |-> pr]
    ELSE [error |-> 0, proc |-> [pr EXCEPT ![p].p_treeflag = @ \cup {"P_TREE_REAPER"}]]

\* Faulty variant of reap_release: it succeeds without abandoning.
reap_release_keep(pr, curp, p) ==
    IF p # curp THEN [error |-> EPERM, proc |-> pr]
    ELSE IF p = initproc THEN [error |-> EINVAL, proc |-> pr]
    ELSE IF "P_TREE_REAPER" \notin pr[p].p_treeflag THEN [error |-> EINVAL, proc |-> pr]
    ELSE [error |-> 0, proc |-> pr]

\* Faulty variant of reap_release: init is not refused.
reap_release_noinit(pr, curp, p) ==
    IF p # curp THEN [error |-> EPERM, proc |-> pr]
    ELSE IF "P_TREE_REAPER" \notin pr[p].p_treeflag THEN [error |-> EINVAL, proc |-> pr]
    ELSE [error |-> 0, proc |-> reaper_abandon_children(pr, p, FALSE)]

\* Faulty variant of reap_release: init is refused before the caller is
\* compared with the target.
reap_release_rootfirst(pr, curp, p) ==
    IF p = initproc THEN [error |-> EINVAL, proc |-> pr]
    ELSE IF p # curp THEN [error |-> EPERM, proc |-> pr]
    ELSE IF "P_TREE_REAPER" \notin pr[p].p_treeflag THEN [error |-> EINVAL, proc |-> pr]
    ELSE [error |-> 0, proc |-> reaper_abandon_children(pr, p, FALSE)]

\* reap_release(td, p)
reap_release(pr, curp, p) ==
    IF p # curp THEN [error |-> EPERM, proc |-> pr]
    ELSE IF p = initproc THEN [error |-> EINVAL, proc |-> pr]
    ELSE IF "P_TREE_REAPER" \notin pr[p].p_treeflag THEN [error |-> EINVAL, proc |-> pr]
    ELSE [error |-> 0, proc |-> reaper_abandon_children(pr, p, FALSE)]

(* ----------------------------- reap_getpids ---------------------------- *)
Min(a, b) == IF a < b THEN a ELSE b

\* The reaper a target resolves to: itself if it is one, else its p_reaper.
ResolveReaper(pr, p) == IF "P_TREE_REAPER" \in pr[p].p_treeflag THEN p ELSE pr[p].p_reaper

\* What the fill loop writes for p2, a member of reap's reap list.
pidinfo(pr, reap, p2) ==
    [pi_pid |-> pr[p2].p_pid, pi_subtree |-> pr[p2].p_reapsubtree,
     pi_flags |-> {"REAPER_PIDINFO_VALID"} \cup
                  (IF proc_realparent(pr, p2) = reap
                   THEN {"REAPER_PIDINFO_CHILD"} ELSE {})]

\* Faulty variant of the fill loop: it does not stop at i == n.
getpids_fill_all(pr, reap, n) ==
    [k \in 1..Len(pr[reap].p_reaplist) |-> pidinfo(pr, reap, pr[reap].p_reaplist[k])]

\* The second LIST_FOREACH of reap_getpids: it stops at the end of the list
\* or when i == n, whichever comes first.
getpids_fill(pr, reap, n) ==
    LET l == pr[reap].p_reaplist
    IN  [k \in 1..Min(n, Len(l)) |-> pidinfo(pr, reap, l[k])]

(* ------------------------------ the state ------------------------------ *)
InitProc ==
    [s \in Proc |->
        IF s = initproc
        THEN [FreeProc EXCEPT !.p_state = "PRS_NORMAL", !.p_pid = 1,
                              !.p_reaper = initproc,
                              !.p_treeflag = {"P_TREE_REAPER"},
                              !.p_reapsubtree = 1, !.p_flag = {"P_SYSTEM"}]
        ELSE FreeProc]

NoRet == [com |-> "none", p |-> NULL, self |-> FALSE, error |-> 0, moved |-> {}]

NoGp == [rp_count |-> 0, reap |-> NULL, reappid |-> 0, counted |-> 0, n |-> 0,
         i |-> 0, pi |-> <<>>, grown |-> FALSE, seen |-> {}]

NoRk == [rk_sig |-> 0, rk_flags |-> {}, rk_subtree |-> 0, rk_killed |-> 0,
         rk_fpid |-> 0, capmode |-> FALSE, reap |-> NULL, p2 |-> NULL,
         error |-> 0, tried |-> <<>>, sent |-> <<>>,
         held |-> {}, unlock |-> "none"]

NoPt == [op |-> 0, bits |-> {}, priv |-> 0, p |-> NULL, ret |-> 0,
         sched |-> {}, before |-> <<>>,
         visited |-> <<>>]

NoTc == [state |-> 0, pre |-> FreeProc, data |-> 0, kassert |-> TRUE,
         execdis |-> [s \in Proc |-> FALSE]]

NoPg == [com |-> "none", state |-> 0, op |-> 0, bits |-> {}, priv |-> 0,
         members |-> <<>>, k |-> 0, ok |-> 0, first_error |-> 0,
         invoked |-> <<>>, skipped |-> {}]

Threads == 1..MaxThreads

NoThread == [pc |-> "idle", com |-> "none", idtype |-> "none", tree_locked |-> FALSE]

NoMt == [thr |-> [t \in Threads |-> NoThread], xowner |-> 0, sowners |-> {}]

Init ==
    /\ proc = InitProc
    /\ lastpid = 1
    /\ ret = NoRet
    /\ pc = "idle"
    /\ td = NULL
    /\ tp = NULL
    /\ proctree_lock = "unlocked"
    /\ plocks = {}
    /\ gp = NoGp
    /\ rk = NoRk
    /\ pt = NoPt
    /\ tc = NoTc
    /\ pg = NoPg
    /\ mt = NoMt

(* ---------------------- process-tree vocabulary ------------------------ *)
is_reaper(pr, p) == "P_TREE_REAPER" \in pr[p].p_treeflag

\* The strict ancestors of p along the parent chain.
RECURSIVE Ancestors(_, _)
Ancestors(pr, p) ==
    IF pr[p].p_pptr = NULL THEN {}
    ELSE {pr[p].p_pptr} \cup Ancestors(pr, pr[p].p_pptr)

NoDup(s) == Cardinality(SeqToSet(s)) = Len(s)

(* ---------------------- the rest of the system ------------------------- *)
\* Forks, exits and reaper acquire / release calls of other threads take the
\* tree lock exclusively: they run only while the stepping thread does not
\* hold it, and each is one step.
TreeFree == proctree_lock = "unlocked" /\ pc # "done"

\* A process forks.
Fork(p1, limit, pidlimit) ==
    /\ TreeFree
    /\ p1 \in Live(proc)
    /\ Cardinality(Live(proc)) < limit
    /\ lastpid < pidlimit
    /\ proc' = fork1(proc, p1, FreeSlot(proc), lastpid + 1)
    /\ lastpid' = lastpid + 1

\* A process other than init exits and its record is destroyed; not the
\* process of a thread that is inside a system call.
Exit(p) ==
    /\ TreeFree
    /\ p \in Live(proc) \ {initproc, td}
    /\ proc' = exit1(proc, p)
    /\ UNCHANGED lastpid

\* What procctl(P_PID, pid of p, com) returns and leaves, from
\* kern_procctl_single on, for com PROC_REAP_ACQUIRE or PROC_REAP_RELEASE
\* called by a thread of process curp.
reap_call(pr, curp, com, p) ==
    IF com = "PROC_REAP_ACQUIRE" THEN reap_acquire(pr, curp, p)
    ELSE reap_release(pr, curp, p)

\* kern_procctl holds the tree lock exclusively from the lookup to the
\* return, so the whole call is one step.
ReapCall(curp, com, p) ==
    /\ TreeFree
    /\ curp \in Live(proc)
    /\ p \in Live(proc)
    /\ proc' = reap_call(proc, curp, com, p).proc
    /\ UNCHANGED lastpid

\* The record of a reaper call for ret.
ReapRet(curp, com, p) ==
    [com |-> com, p |-> p, self |-> (curp = p),
     error |-> reap_call(proc, curp, com, p).error,
     moved |-> IF com = "PROC_REAP_RELEASE" /\ reap_call(proc, curp, com, p).error = 0
               THEN SeqToSet(proc[p].p_reaplist) ELSE {}]

\* reap_status(td, p, rs): what it stores into *rs and returns; kassert is
\* whether the KASSERTs it came to held, fault whether it read the p_pid of
\* LIST_FIRST of an empty p_children.
reap_status(pr, p) ==
    LET owned == is_reaper(pr, p)
        reap  == IF owned THEN p ELSE pr[p].p_reaper
        l     == pr[reap].p_reaplist
        base  == [error |-> 0,
                  rs_flags |-> (IF owned THEN {"REAPER_STATUS_OWNED"} ELSE {})
                               \cup (IF reap = initproc
                                     THEN {"REAPER_STATUS_REALINIT"} ELSE {}),
                  rs_reaper |-> pr[reap].p_pid,
                  rs_descendants |-> 0, rs_children |-> 0, rs_pid |-> 0,
                  kassert |-> TRUE, fault |-> FALSE]
    IN  IF l # <<>>
        THEN [base EXCEPT
                !.kassert = pr[reap].p_children # <<>>,
                !.fault = pr[reap].p_children = <<>>,
                !.rs_pid = IF pr[reap].p_children # <<>>
                           THEN pr[LIST_FIRST(pr[reap].p_children)].p_pid ELSE 0,
                !.rs_children = Cardinality({k \in 1..Len(l) :
                                               proc_realparent(pr, l[k]) = reap}),
                !.rs_descendants = Len(l)]
        ELSE [base EXCEPT !.rs_pid = NOPID,
                          !.kassert = pr[reap].p_children = <<>>]

(* ------------------- reaper lifecycle: Spec ---------------------------- *)
SysFork(p1) ==
    /\ Fork(p1, MaxLive, MaxPid)
    /\ ret' = [NoRet EXCEPT !.com = "fork"]
    /\ UNCHANGED <<callvars, opvars>>

SysExit(p) ==
    /\ Exit(p)
    /\ ret' = [NoRet EXCEPT !.com = "exit"]
    /\ UNCHANGED <<callvars, opvars>>

\* procctl(P_PID, pid of p, com) by a thread of curp, com a reaper call.
SysReap(curp, com, p) ==
    /\ ReapCall(curp, com, p)
    /\ ret' = ReapRet(curp, com, p)
    /\ UNCHANGED <<callvars, opvars>>

Next ==
    \/ \E p1 \in Proc : SysFork(p1)
    \/ \E p \in Proc : SysExit(p)
    \/ \E curp \in Proc, p \in Proc : SysReap(curp, "PROC_REAP_ACQUIRE", p)
    \/ \E curp \in Proc, p \in Proc : SysReap(curp, "PROC_REAP_RELEASE", p)

Spec == Init /\ [][Next]_vars

(* ------------------- reap_getpids: SpecGetpids ------------------------- *)
\* Whether the record gp.reap points to still holds the process the call
\* resolved its reaper to.
ReapIsResolved(pr, g) ==
    g.reap # NULL /\ pr[g.reap].p_state # "FREE" /\ pr[g.reap].p_pid = g.reappid

\* The entries of reap's reap list as they are now.
Entries(pr, reap) ==
    {pidinfo(pr, reap, pr[reap].p_reaplist[k]) : k \in 1..Len(pr[reap].p_reaplist)}

\* What a call in progress has seen so far (kept when hist is set): the
\* entries the resolved reaper's reap list held at any instant since the
\* call resolved it.
Observe(hist, g, pr) ==
    IF hist /\ pc = "gp_malloc" /\ ReapIsResolved(pr, g)
    THEN [g EXCEPT !.seen = @ \cup Entries(pr, g.reap)]
    ELSE g

\* kern_procctl takes the tree lock shared and finds p locked;
\* reap_getpids unlocks p, resolves the reaper, counts its reap list and
\* drops the tree lock.
GpCount(hist, curp, p, count) ==
    /\ pc = "idle"
    /\ curp \in Live(proc) /\ p \in Live(proc)
    /\ LET reap == ResolveReaper(proc, p)
       IN  gp' = [NoGp EXCEPT !.rp_count = count, !.reap = reap,
                              !.reappid = proc[reap].p_pid,
                              !.counted = Len(proc[reap].p_reaplist),
                              !.n = Len(proc[reap].p_reaplist),
                              !.seen = IF hist THEN Entries(proc, reap) ELSE {}]
    /\ pc' = "gp_malloc"
    /\ td' = curp
    /\ tp' = p
    /\ proctree_lock' = "unlocked"
    /\ plocks' = {}
    /\ UNCHANGED <<treevars, ret, rk, pt, dispvars>>

\* n is clamped to rp_count, the buffer allocated, the tree lock taken
\* shared again and the buffer filled from the list as it is now; then the
\* lock is dropped, i entries are copied out, the tree lock and p's lock are
\* taken again, reap_getpids returns, and kern_procctl unlocks p and the
\* tree.  Nothing the call does after the fill reads the tree, so the
\* window of the copyout is not a step of its own.
GpFill(hist) ==
    /\ pc = "gp_malloc"
    /\ LET n  == Min(gp.rp_count, gp.n)
           pi == getpids_fill(proc, gp.reap, n)
           g  == Observe(hist, gp, proc)
       IN  gp' = [g EXCEPT !.n = n, !.i = Len(pi), !.pi = pi,
                           !.grown = Len(proc[gp.reap].p_reaplist) > gp.counted]
    /\ pc' = "done"
    /\ ret' = [NoRet EXCEPT !.com = "PROC_REAP_GETPIDS", !.p = tp, !.self = (td = tp)]
    /\ UNCHANGED <<treevars, td, tp, proctree_lock, plocks, rk, pt, dispvars>>

\* The thread is back in user mode.
CallDone ==
    /\ pc = "done"
    /\ pc' = "idle"
    /\ td' = NULL
    /\ tp' = NULL
    /\ ret' = NoRet
    /\ gp' = NoGp
    /\ rk' = NoRk
    /\ pt' = NoPt
    /\ UNCHANGED <<treevars, proctree_lock, plocks, dispvars>>

\* Forks, exits and reaper calls of other threads (each on its own process:
\* on another one the call fails and changes nothing) beside the call; the
\* calling thread is one of init, the process that never exits (reap_getpids
\* does not use td), so every other process may exit while the call runs.
GetpidsNext(pidlimit, hist) ==
    \/ \E p1 \in Proc :
          /\ Fork(p1, MaxLive, pidlimit)
          /\ gp' = Observe(hist, gp, proc')
          /\ UNCHANGED <<ret, callvars, rk, pt, dispvars>>
    \/ \E p \in Proc :
          /\ Exit(p)
          /\ gp' = Observe(hist, gp, proc')
          /\ UNCHANGED <<ret, callvars, rk, pt, dispvars>>
    \/ \E p \in Proc :
          /\ ReapCall(p, "PROC_REAP_ACQUIRE", p)
          /\ gp' = Observe(hist, gp, proc')
          /\ UNCHANGED <<ret, callvars, rk, pt, dispvars>>
    \/ \E p \in Proc :
          /\ ReapCall(p, "PROC_REAP_RELEASE", p)
          /\ gp' = Observe(hist, gp, proc')
          /\ UNCHANGED <<ret, callvars, rk, pt, dispvars>>
    \/ \E p \in Proc, count \in 0..MaxCount : GpCount(hist, initproc, p, count)
    \/ GpFill(hist)
    \/ CallDone

SpecGetpids == Init /\ [][GetpidsNext(MaxPid, FALSE)]_vars

\* The same with one more fork, enough for a record to be freed, reused and
\* its new process to have a descendant of its own while a call runs, and
\* with the history of what the call has seen.
SpecGetpidsReuse == Init /\ [][GetpidsNext(MaxPidGp, TRUE)]_vars

(* --------------------- reap_kill: SpecKill ----------------------------- *)
\* The list reap_kill walks and the link it follows: the children of the
\* reaper with REAPER_KILL_CHILDREN, else its reap list.
kill_list(pr, reap, flags) ==
    IF "REAPER_KILL_CHILDREN" \in flags THEN pr[reap].p_children
    ELSE pr[reap].p_reaplist

\* reap_kill up to its loop, entered from kern_procctl with the tree lock
\* shared and p locked: p is unlocked, the request checked, the reaper
\* resolved, and rk_killed, rk_fpid and error set for the loop.  rk0 is the
\* request as the caller filled it.
reap_kill_enter(pr, p, rk0) ==
    IF rk0.capmode THEN [rk0 EXCEPT !.error = ECAPMODE]
    ELSE IF rk0.rk_sig <= 0 \/ rk0.rk_sig > SIG_MAXSIG THEN [rk0 EXCEPT !.error = EINVAL]
    ELSE IF rk0.rk_flags \ {"REAPER_KILL_CHILDREN"} # {} THEN [rk0 EXCEPT !.error = EINVAL]
    ELSE LET reap == ResolveReaper(pr, p)
         IN  [rk0 EXCEPT !.reap = reap, !.error = ESRCH, !.rk_killed = 0,
                         !.rk_fpid = NOPID,
                         !.p2 = LIST_FIRST(kill_list(pr, reap, rk0.rk_flags))]

\* Whether reap_kill_enter returned before the loop.
kill_refused(r) == r.reap = NULL

\* Faulty variant of the loop body: a signalled candidate does not clear
\* the error of the call.
reap_kill_step_keeperror(pr, r, error1) ==
    LET p2   == r.p2
        next == LIST_NEXT(kill_list(pr, r.reap, r.rk_flags), p2)
        tr   == Append(r.tried, [pid |-> pr[p2].p_pid, error1 |-> error1])
    IN  IF error1 = 0
        THEN [r EXCEPT !.rk_killed = @ + 1, !.p2 = next, !.tried = tr,
                       !.sent = Append(@, pr[p2].p_pid)]
        ELSE IF r.error = ESRCH
        THEN [r EXCEPT !.error = error1, !.rk_fpid = pr[p2].p_pid, !.p2 = next,
                       !.tried = tr]
        ELSE [r EXCEPT !.p2 = next, !.tried = tr]

\* Faulty variant of the loop body: the walk ends at the first candidate
\* that may not be signalled.
reap_kill_step_break(pr, r, error1) ==
    LET p2   == r.p2
        next == LIST_NEXT(kill_list(pr, r.reap, r.rk_flags), p2)
        tr   == Append(r.tried, [pid |-> pr[p2].p_pid, error1 |-> error1])
    IN  IF error1 = 0
        THEN [r EXCEPT !.rk_killed = @ + 1, !.error = error1, !.p2 = next,
                       !.tried = tr, !.sent = Append(@, pr[p2].p_pid)]
        ELSE IF r.error = ESRCH
        THEN [r EXCEPT !.error = error1, !.rk_fpid = pr[p2].p_pid, !.p2 = NULL,
                       !.tried = tr]
        ELSE [r EXCEPT !.p2 = NULL, !.tried = tr]

\* One pass of the loop of reap_kill on candidate r.p2; error1 is what
\* p_cansignal(td, p2, rk_sig) returns.
reap_kill_step(pr, r, error1) ==
    LET p2   == r.p2
        next == LIST_NEXT(kill_list(pr, r.reap, r.rk_flags), p2)
    IN  IF "REAPER_KILL_SUBTREE" \in r.rk_flags /\ pr[p2].p_reapsubtree # r.rk_subtree
        THEN [r EXCEPT !.p2 = next]
        ELSE IF error1 = 0
        THEN [r EXCEPT !.rk_killed = @ + 1, !.error = error1, !.p2 = next,
                       !.sent = Append(@, pr[p2].p_pid),
                       !.tried = Append(@, [pid |-> pr[p2].p_pid, error1 |-> error1])]
        ELSE IF r.error = ESRCH
        THEN [r EXCEPT !.error = error1, !.rk_fpid = pr[p2].p_pid, !.p2 = next,
                       !.tried = Append(@, [pid |-> pr[p2].p_pid, error1 |-> error1])]
        ELSE [r EXCEPT !.p2 = next,
                       !.tried = Append(@, [pid |-> pr[p2].p_pid, error1 |-> error1])]

\* The requests a caller makes: rk_subtree is left 0 without
\* REAPER_KILL_SUBTREE; rk_killed holds whatever the caller's memory held.
KillRequests ==
    {[NoRk EXCEPT !.rk_sig = sig, !.rk_flags = fl, !.rk_subtree = st,
                  !.rk_killed = k0, !.rk_fpid = 0, !.capmode = cap] :
        sig \in {0, SIG_MAXSIG, SIG_MAXSIG + 1},
        fl \in SUBSET {"REAPER_KILL_CHILDREN", "REAPER_KILL_SUBTREE"},
        st \in 0..2, k0 \in 0..1, cap \in BOOLEAN}

\* procctl(P_PID, pid of p, PROC_REAP_KILL, rk0) by a thread of curp, up to
\* the loop of reap_kill or to its early return.  An early return comes
\* after PROC_UNLOCK(p): the thread holds no PROC_LOCK (held) when
\* kern_procctl then does PROC_UNLOCK(p), on a mutex the thread does not
\* own; ub is what that does: the kernel panics, or the mutex is written
\* as released whoever owns it (unlock).
KillEnter(curp, p, rk0, ub) ==
    /\ pc = "idle"
    /\ curp \in Live(proc) /\ p \in Live(proc)
    /\ ("REAPER_KILL_SUBTREE" \in rk0.rk_flags) = (rk0.rk_subtree # 0)
    /\ rk' = IF kill_refused(reap_kill_enter(proc, p, rk0))
             THEN [reap_kill_enter(proc, p, rk0) EXCEPT !.held = {}, !.unlock = ub]
             ELSE reap_kill_enter(proc, p, rk0)
    /\ td' = curp
    /\ tp' = p
    /\ IF kill_refused(rk')
       THEN /\ pc' = "done"
            /\ ret' = [NoRet EXCEPT !.com = "PROC_REAP_KILL", !.p = p,
                                    !.self = (curp = p), !.error = rk'.error]
            /\ proctree_lock' = "unlocked"
       ELSE /\ pc' = "rk_loop"
            /\ ret' = ret
            /\ proctree_lock' = "slock"
    /\ plocks' = {}
    /\ UNCHANGED <<treevars, gp, pt, dispvars>>

\* One candidate: locked, checked, signalled if permitted, unlocked.
KillStep(error1) ==
    /\ pc = "rk_loop"
    /\ rk.p2 # NULL
    /\ rk' = reap_kill_step(proc, rk, error1)
    /\ UNCHANGED <<treevars, ret, callvars, gp, pt, dispvars>>

\* The list is exhausted: p is locked again, reap_kill returns error, and
\* kern_procctl unlocks p and the tree.
KillReturn ==
    /\ pc = "rk_loop"
    /\ rk.p2 = NULL
    /\ pc' = "done"
    /\ ret' = [NoRet EXCEPT !.com = "PROC_REAP_KILL", !.p = tp,
                            !.self = (td = tp), !.error = rk.error]
    /\ proctree_lock' = "unlocked"
    /\ plocks' = {}
    /\ rk' = [rk EXCEPT !.held = {tp}, !.unlock = "owned"]
    /\ UNCHANGED <<treevars, td, tp, gp, pt, dispvars>>

\* The tree the call finds is built by forks and reaper acquires.
KillNext ==
    \/ \E p1 \in Proc :
          /\ pc = "idle"
          /\ Fork(p1, MaxProc, MaxPid)
          /\ UNCHANGED <<ret, callvars, opvars>>
    \/ \E p \in Proc :
          /\ pc = "idle"
          /\ ReapCall(p, "PROC_REAP_ACQUIRE", p)
          /\ UNCHANGED <<ret, callvars, opvars>>
    \/ /\ pc = "idle"
       /\ \E p \in Live(proc), rk0 \in KillRequests, ub \in {"panic", "unowned"} :
             KillEnter(initproc, p, rk0, ub)
    \/ \E error1 \in {0, EPERM, ESRCH} : KillStep(error1)
    \/ KillReturn
    \/ rk.unlock # "panic" /\ CallDone

SpecKill == Init /\ [][KillNext]_vars

(* -------------------- protect_set: SpecProtect ------------------------- *)
\* PPROT_OP(flags) values; a request is [op, bits]: op is PPROT_OP(flags)
\* and bits the option bits of PPROT_FLAGS(flags).
PPROT_SET == 1
PPROT_CLEAR == 2

\* protect_setchild(td, p, flags); cs is what p_cansched(td, p) returns,
\* asked only if p is not a system process.
protect_setchild(pr, p, op, bits, cs) ==
    IF "P_SYSTEM" \in pr[p].p_flag \/ cs # 0 THEN [ret |-> 0, proc |-> pr]
    ELSE IF op % 2 = PPROT_SET
    THEN [ret |-> 1,
          proc |-> [pr EXCEPT ![p].p_flag = @ \cup {"P_PROTECTED"},
                              ![p].p_flag2 = IF "PPROT_INHERIT" \in bits
                                             THEN @ \cup {"P2_INHERIT_PROTECTED"}
                                             ELSE @]]
    ELSE [ret |-> 1,
          proc |-> [pr EXCEPT ![p].p_flag = @ \ {"P_PROTECTED"},
                              ![p].p_flag2 = @ \ {"P2_INHERIT_PROTECTED"}]]

\* The inner loop of protect_setchildren: from a process without children,
\* to the next sibling of it or of the nearest ancestor that has one, not
\* past top; NULL when top is reached.
RECURSIVE walk_up(_, _, _)
walk_up(pr, top, p) ==
    IF p = top THEN NULL
    ELSE LET sib == LIST_NEXT(pr[pr[p].p_pptr].p_children, p)
         IN  IF sib # NULL THEN sib ELSE walk_up(pr, top, pr[p].p_pptr)

\* Faulty variant of the walk: it goes down to first children only and
\* never on to a sibling.
walk_next_down(pr, top, p) ==
    IF pr[p].p_children # <<>> THEN LIST_FIRST(pr[p].p_children) ELSE NULL

\* Faulty variant of the walk: at a process without children it looks for
\* a next sibling before it looks whether the process is top.
walk_next_past(pr, top, p) ==
    IF pr[p].p_children # <<>> THEN LIST_FIRST(pr[p].p_children)
    ELSE IF pr[p].p_pptr = NULL THEN NULL
    ELSE LET sib == LIST_NEXT(pr[pr[p].p_pptr].p_children, p)
         IN  IF sib # NULL THEN sib
             ELSE IF p = top \/ top \notin Ancestors(pr, p) THEN NULL
             ELSE walk_up(pr, top, pr[p].p_pptr)

\* Where protect_setchildren goes after p; NULL when the walk is over.
walk_next(pr, top, p) ==
    IF pr[p].p_children # <<>> THEN LIST_FIRST(pr[p].p_children)
    ELSE walk_up(pr, top, p)

\* The checks of protect_set before it touches a process; priv is what
\* priv_check(td, PRIV_VM_MADV_PROTECT) returns.
protect_check(op, bits, priv) ==
    IF op \notin {PPROT_SET, PPROT_CLEAR} THEN EINVAL
    ELSE IF bits \ {"PPROT_DESCEND", "PPROT_INHERIT"} # {} THEN EINVAL
    ELSE priv

\* protect_setchildren(td, top, flags) from p on, ret so far; sched is the
\* set of processes for which p_cansched(td, .) returns 0.
RECURSIVE protect_setchildren(_, _, _, _, _, _, _)
protect_setchildren(pr, top, p, op, bits, sched, ret0) ==
    LET r    == protect_setchild(pr, p, op, bits, IF p \in sched THEN 0 ELSE EPERM)
        ret1 == IF r.ret = 1 THEN 1 ELSE ret0
        next == walk_next(r.proc, top, p)
    IN  IF next = NULL THEN [ret |-> ret1, proc |-> r.proc]
        ELSE protect_setchildren(r.proc, top, next, op, bits, sched, ret1)

\* protect_setchildren(td, p, flags) or protect_setchild(td, p, flags), as
\* protect_set chooses.
protect_apply(pr, p, op, bits, sched) ==
    IF "PPROT_DESCEND" \in bits
    THEN protect_setchildren(pr, p, p, op, bits, sched, 0)
    ELSE protect_setchild(pr, p, op, bits, IF p \in sched THEN 0 ELSE EPERM)

\* protect_set(td, p, flags) as a whole.
protect_set(pr, p, op, bits, priv, sched) ==
    IF protect_check(op, bits, priv) # 0
    THEN [error |-> protect_check(op, bits, priv), proc |-> pr]
    ELSE [error |-> IF protect_apply(pr, p, op, bits, sched).ret = 0 THEN EPERM ELSE 0,
          proc |-> protect_apply(pr, p, op, bits, sched).proc]

\* The processes a call on p with these option bits can reach that are not
\* system processes: the ones p_cansched is asked about.
Asked(pr, p, bits) ==
    {q \in Live(pr) :
        /\ "P_SYSTEM" \notin pr[q].p_flag
        /\ q = p \/ ("PPROT_DESCEND" \in bits /\ p \in Ancestors(pr, q))}

\* procctl(P_PID, pid of p, PROC_SPROTECT, flags) by a thread of curp, up
\* to the first process protect_set visits or to its early return.  priv
\* and sched are what priv_check and p_cansched answer this caller.
ProtEnter(curp, p, op, bits, priv, sched) ==
    /\ pc = "idle"
    /\ curp \in Live(proc) /\ p \in Live(proc)
    /\ priv # 0 => protect_check(op, bits, 0) = 0
    /\ sched \subseteq Asked(proc, p, bits)
    /\ protect_check(op, bits, priv) # 0 => sched = {}
    /\ td' = curp
    /\ tp' = p
    /\ IF protect_check(op, bits, priv) # 0
       THEN /\ pc' = "done"
            /\ pt' = [NoPt EXCEPT !.op = op, !.bits = bits, !.priv = priv,
                                  !.before = proc]
            /\ ret' = [NoRet EXCEPT !.com = "PROC_SPROTECT", !.p = p,
                                    !.self = (curp = p),
                                    !.error = protect_check(op, bits, priv)]
            /\ proctree_lock' = "unlocked"
            /\ plocks' = {}
       ELSE /\ pc' = "ps_visit"
            /\ pt' = [NoPt EXCEPT !.op = op, !.bits = bits, !.priv = priv,
                                  !.p = p, !.sched = sched, !.before = proc]
            /\ ret' = ret
            /\ proctree_lock' = "slock"
            /\ plocks' = {p}
    /\ UNCHANGED <<treevars, gp, rk, dispvars>>

\* protect_set visits pt.p, which it holds locked, and moves on: with
\* PPROT_DESCEND to the next process of the walk, locked in its turn, or
\* back to the top, locked again.
ProtVisit ==
    /\ pc = "ps_visit"
    /\ pt.p # NULL
    /\ LET r    == protect_setchild(proc, pt.p, pt.op, pt.bits,
                                    IF pt.p \in pt.sched THEN 0 ELSE EPERM)
           next == IF "PPROT_DESCEND" \in pt.bits THEN walk_next(r.proc, tp, pt.p)
                   ELSE NULL
       IN  /\ proc' = r.proc
           /\ pt' = [pt EXCEPT !.p = next, !.ret = IF r.ret = 1 THEN 1 ELSE @,
                               !.visited = Append(@, pt.p)]
           /\ plocks' = IF next = NULL THEN {tp} ELSE {next}
    /\ UNCHANGED <<lastpid, ret, pc, td, tp, proctree_lock, gp, rk, dispvars>>

\* protect_set returns and kern_procctl unlocks the target and the tree.
ProtReturn ==
    /\ pc = "ps_visit"
    /\ pt.p = NULL
    /\ pc' = "done"
    /\ ret' = [NoRet EXCEPT !.com = "PROC_SPROTECT", !.p = tp, !.self = (td = tp),
                            !.error = IF pt.ret = 0 THEN EPERM ELSE 0]
    /\ proctree_lock' = "unlocked"
    /\ plocks' = {}
    /\ UNCHANGED <<treevars, td, tp, opvars>>

\* The tree the call finds is built by forks; init is its system process.
ProtNext ==
    \/ \E p1 \in Proc :
          /\ pc = "idle"
          /\ Fork(p1, MaxProc, MaxPid)
          /\ UNCHANGED <<ret, callvars, opvars>>
    \/ /\ pc = "idle"
       /\ \E p \in Live(proc), op \in 1..3,
             bits \in SUBSET {"PPROT_DESCEND", "PPROT_INHERIT", "PPROT_OTHER"},
             priv \in {0, EPERM} :
             \E sched \in IF protect_check(op, bits, priv) = 0
                           THEN SUBSET Asked(proc, p, bits) ELSE {{}} :
                 ProtEnter(initproc, p, op, bits, priv, sched)
    \/ ProtVisit
    \/ ProtReturn
    \/ CallDone

SpecProtect == Init /\ [][ProtNext]_vars

\* The walks alone: PROC_SPROTECT with PPROT_DESCEND by a privileged thread
\* of init that can schedule every process or none, on every process of
\* every tree.
WalkNext ==
    \/ \E p1 \in Proc :
          /\ pc = "idle"
          /\ Fork(p1, MaxProc, MaxPid)
          /\ UNCHANGED <<ret, callvars, opvars>>
    \/ /\ pc = "idle"
       /\ \E p \in Live(proc), op \in {PPROT_SET, PPROT_CLEAR} :
             \E sched \in {{}, Asked(proc, p, {"PPROT_DESCEND"})} :
                 ProtEnter(initproc, p, op, {"PPROT_DESCEND"}, 0, sched)
    \/ ProtVisit
    \/ ProtReturn
    \/ CallDone

\* The thread inside protect_set is not stopped for ever: it sleeps nowhere
\* in the walk, and each PROC_LOCK it takes is of a mutex its holders give
\* back.
SpecWalkFair ==
    Init /\ [][WalkNext]_vars /\ WF_vars(ProtVisit) /\ WF_vars(ProtReturn)

(* ----------------- trace_ctl, trace_status: SpecTrace ------------------ *)
\* The states a PROC_TRACE_CTL request names.
PROC_TRACE_CTL_ENABLE == 1
PROC_TRACE_CTL_DISABLE == 2
PROC_TRACE_CTL_DISABLE_EXEC == 3

\* Faulty variant of the switch of trace_ctl: PROC_TRACE_CTL_DISABLE_EXEC sets
\* P2_NOTRACE_EXEC alone.
trace_switch_execonly(pr, curp, p, state) ==
    IF state = PROC_TRACE_CTL_ENABLE
    THEN IF curp # p THEN [error |-> EPERM, proc |-> pr, kassert |-> TRUE]
         ELSE [error |-> 0, kassert |-> TRUE,
               proc |-> [pr EXCEPT ![p].p_flag2 = @ \ {"P2_NOTRACE", "P2_NOTRACE_EXEC"}]]
    ELSE IF state = PROC_TRACE_CTL_DISABLE_EXEC
    THEN [error |-> 0, kassert |-> TRUE,
          proc |-> [pr EXCEPT ![p].p_flag2 = @ \cup {"P2_NOTRACE_EXEC"}]]
    ELSE IF state = PROC_TRACE_CTL_DISABLE
    THEN IF "P2_NOTRACE_EXEC" \in pr[p].p_flag2
         THEN IF curp # p
              THEN [error |-> EPERM, proc |-> pr,
                    kassert |-> "P2_NOTRACE" \in pr[p].p_flag2]
              ELSE [error |-> 0, kassert |-> "P2_NOTRACE" \in pr[p].p_flag2,
                    proc |-> [pr EXCEPT ![p].p_flag2 = @ \ {"P2_NOTRACE_EXEC"}]]
         ELSE [error |-> 0, kassert |-> TRUE,
               proc |-> [pr EXCEPT ![p].p_flag2 = @ \cup {"P2_NOTRACE"}]]
    ELSE [error |-> EINVAL, proc |-> pr, kassert |-> TRUE]

\* Faulty variant of the switch of trace_ctl: PROC_TRACE_CTL_DISABLE on a
\* process with P2_NOTRACE_EXEC clears P2_NOTRACE and leaves P2_NOTRACE_EXEC.
trace_switch_dangling(pr, curp, p, state) ==
    IF state = PROC_TRACE_CTL_ENABLE
    THEN IF curp # p THEN [error |-> EPERM, proc |-> pr, kassert |-> TRUE]
         ELSE [error |-> 0, kassert |-> TRUE,
               proc |-> [pr EXCEPT ![p].p_flag2 = @ \ {"P2_NOTRACE", "P2_NOTRACE_EXEC"}]]
    ELSE IF state = PROC_TRACE_CTL_DISABLE_EXEC
    THEN [error |-> 0, kassert |-> TRUE,
          proc |-> [pr EXCEPT ![p].p_flag2 = @ \cup {"P2_NOTRACE_EXEC", "P2_NOTRACE"}]]
    ELSE IF state = PROC_TRACE_CTL_DISABLE
    THEN IF "P2_NOTRACE_EXEC" \in pr[p].p_flag2
         THEN IF curp # p
              THEN [error |-> EPERM, proc |-> pr,
                    kassert |-> "P2_NOTRACE" \in pr[p].p_flag2]
              ELSE [error |-> 0, kassert |-> "P2_NOTRACE" \in pr[p].p_flag2,
                    proc |-> [pr EXCEPT ![p].p_flag2 = @ \ {"P2_NOTRACE"}]]
         ELSE [error |-> 0, kassert |-> TRUE,
               proc |-> [pr EXCEPT ![p].p_flag2 = @ \cup {"P2_NOTRACE"}]]
    ELSE [error |-> EINVAL, proc |-> pr, kassert |-> TRUE]

\* The switch of trace_ctl(td, p, state), curp the process of td; kassert
\* is whether the KASSERT of the PROC_TRACE_CTL_DISABLE case, if reached,
\* held.
trace_switch(pr, curp, p, state) ==
    IF state = PROC_TRACE_CTL_ENABLE
    THEN IF curp # p THEN [error |-> EPERM, proc |-> pr, kassert |-> TRUE]
         ELSE [error |-> 0, kassert |-> TRUE,
               proc |-> [pr EXCEPT ![p].p_flag2 = @ \ {"P2_NOTRACE", "P2_NOTRACE_EXEC"}]]
    ELSE IF state = PROC_TRACE_CTL_DISABLE_EXEC
    THEN [error |-> 0, kassert |-> TRUE,
          proc |-> [pr EXCEPT ![p].p_flag2 = @ \cup {"P2_NOTRACE_EXEC", "P2_NOTRACE"}]]
    ELSE IF state = PROC_TRACE_CTL_DISABLE
    THEN IF "P2_NOTRACE_EXEC" \in pr[p].p_flag2
         THEN IF curp # p
              THEN [error |-> EPERM, proc |-> pr,
                    kassert |-> "P2_NOTRACE" \in pr[p].p_flag2]
              ELSE [error |-> 0, kassert |-> "P2_NOTRACE" \in pr[p].p_flag2,
                    proc |-> [pr EXCEPT ![p].p_flag2 = @ \ {"P2_NOTRACE_EXEC"}]]
         ELSE [error |-> 0, kassert |-> TRUE,
               proc |-> [pr EXCEPT ![p].p_flag2 = @ \cup {"P2_NOTRACE"}]]
    ELSE [error |-> EINVAL, proc |-> pr, kassert |-> TRUE]

\* Faulty variant of trace_ctl: ktrace on the target is not looked at.
trace_ctl_noktrace(pr, curp, p, state) ==
    IF "P_TRACED" \in pr[p].p_flag
    THEN [error |-> EBUSY, proc |-> pr, kassert |-> TRUE]
    ELSE trace_switch(pr, curp, p, state)

\* trace_ctl(td, p, state)
trace_ctl(pr, curp, p, state) ==
    IF "P_TRACED" \in pr[p].p_flag \/ pr[p].p_traceflag # 0
    THEN [error |-> EBUSY, proc |-> pr, kassert |-> TRUE]
    ELSE trace_switch(pr, curp, p, state)

\* trace_status(td, p, data): what it stores in *data, and whether its
\* KASSERT, if reached, held.
trace_status(pr, p) ==
    IF "P2_NOTRACE" \in pr[p].p_flag2
    THEN [error |-> 0, data |-> -1, kassert |-> "P_TRACED" \notin pr[p].p_flag]
    ELSE IF "P_TRACED" \in pr[p].p_flag
    THEN [error |-> 0, data |-> pr[pr[p].p_pptr].p_pid, kassert |-> TRUE]
    ELSE [error |-> 0, data |-> 0, kassert |-> TRUE]

\* procctl(P_PID, pid of p, PROC_TRACE_CTL, state) by a thread of curp: the
\* tree lock shared and p locked from the lookup to the return, one step.
TraceCtl(curp, p, state) ==
    /\ TreeFree
    /\ curp \in Live(proc) /\ p \in Live(proc)
    /\ proc' = trace_ctl(proc, curp, p, state).proc
    /\ ret' = [NoRet EXCEPT !.com = "PROC_TRACE_CTL", !.p = p, !.self = (curp = p),
                            !.error = trace_ctl(proc, curp, p, state).error]
    /\ tc' = [tc EXCEPT !.state = state, !.pre = proc[p], !.data = 0,
                        !.kassert = trace_ctl(proc, curp, p, state).kassert,
                        !.execdis[p] = /\ state = PROC_TRACE_CTL_DISABLE_EXEC
                                       /\ trace_ctl(proc, curp, p, state).error = 0]
    /\ UNCHANGED <<lastpid, callvars, gp, rk, pt, pg, mt>>

\* procctl(P_PID, pid of p, PROC_TRACE_STATUS) by a thread of curp: p
\* locked, no tree lock.
TraceStatus(curp, p) ==
    /\ pc = "idle"
    /\ curp \in Live(proc) /\ p \in Live(proc)
    /\ ret' = [NoRet EXCEPT !.com = "PROC_TRACE_STATUS", !.p = p,
                            !.self = (curp = p),
                            !.error = trace_status(proc, p).error]
    /\ tc' = [tc EXCEPT !.state = 0, !.pre = proc[p],
                        !.data = trace_status(proc, p).data,
                        !.kassert = trace_status(proc, p).kassert]
    /\ UNCHANGED <<treevars, callvars, gp, rk, pt, pg, mt>>

\* ptrace(PT_TRACE_ME) by p: p is traced by its parent from now on.  Tracing
\* is refused to a process with P2_NOTRACE.
TraceMe(p) ==
    /\ pc = "idle"
    /\ p \in Live(proc) \ {initproc}
    /\ "P2_NOTRACE" \notin proc[p].p_flag2
    /\ "P_TRACED" \notin proc[p].p_flag
    /\ proc' = [proc EXCEPT ![p].p_flag = @ \cup {"P_TRACED"}]
    /\ ret' = [NoRet EXCEPT !.com = "ptrace"]
    /\ UNCHANGED <<lastpid, callvars, opvars>>

\* The tracer of p detaches.
Untrace(p) ==
    /\ pc = "idle"
    /\ p \in Live(proc)
    /\ "P_TRACED" \in proc[p].p_flag
    /\ proc' = [proc EXCEPT ![p].p_flag = @ \ {"P_TRACED"}]
    /\ ret' = [NoRet EXCEPT !.com = "ptrace"]
    /\ UNCHANGED <<lastpid, callvars, opvars>>

\* ktrace(2) on p: p_traceflag goes from zero or to zero.
Ktrace(p) ==
    /\ pc = "idle"
    /\ p \in Live(proc) \ {initproc}
    /\ proc' = [proc EXCEPT ![p].p_traceflag = 1 - @]
    /\ ret' = [NoRet EXCEPT !.com = "ktrace"]
    /\ UNCHANGED <<lastpid, callvars, opvars>>

\* A fork beside the trace calls: the child inherits the no-trace flags,
\* and no trace_ctl has been made on it.
TraceFork(p1) ==
    /\ Fork(p1, MaxTrace, MaxPid)
    /\ ret' = [NoRet EXCEPT !.com = "fork"]
    /\ UNCHANGED <<callvars, opvars>>

TraceNext ==
    \/ \E p1 \in Proc : TraceFork(p1)
    \/ \E p \in Proc : TraceMe(p)
    \/ \E p \in Proc : Untrace(p)
    \/ \E p \in Proc : Ktrace(p)
    \/ \E curp \in Proc, p \in Proc, state \in 1..4 : TraceCtl(curp, p, state)
    \/ \E curp \in Proc, p \in Proc : TraceStatus(curp, p)

SpecTrace == Init /\ [][TraceNext]_vars

(* ---------------- kern_procctl on a process group ---------------------- *)
\* kern_procctl_single(td, p, com, data) for the two commands kern_procctl
\* lets through with P_PGID; rq holds com and *data, priv and sched are what
\* priv_check and p_cansched answer.
kern_procctl_single(pr, curp, p, rq, priv, sched) ==
    IF rq.com = "PROC_SPROTECT"
    THEN protect_set(pr, p, rq.op, rq.bits, priv, sched)
    ELSE IF rq.com = "PROC_TRACE_CTL"
    THEN [error |-> trace_ctl(pr, curp, p, rq.state).error,
          proc |-> trace_ctl(pr, curp, p, rq.state).proc]
    ELSE [error |-> EINVAL, proc |-> pr]

\* The commands kern_procctl refuses unless idtype is P_PID.
PidOnly == {"PROC_REAP_ACQUIRE", "PROC_REAP_RELEASE", "PROC_REAP_STATUS",
            "PROC_REAP_GETPIDS", "PROC_REAP_KILL", "PROC_TRACE_STATUS"}

\* The requests made on a group.
GroupRequests ==
    {[com |-> "PROC_TRACE_CTL", state |-> st, op |-> 0, bits |-> {}] : st \in 1..4}
    \cup {[com |-> com, state |-> 0, op |-> 0, bits |-> {}] :
            com \in {"PROC_TRACE_STATUS", "PROC_REAP_STATUS"}}

\* pg_members of the process group of init.  A fork puts the child into the
\* group of its parent, next after the parent in the list: with init the
\* parent of every other process, the list is init and then its children,
\* the youngest first.
pg_members(pr) == <<initproc>> \o pr[initproc].p_children

\* The aggregate of the loop, faulty variant: the error of the last member
\* that failed is kept even when another member succeeded.
group_error_last(ok, first_error) ==
    IF first_error # 0 THEN first_error
    ELSE IF ok # 0 THEN 0
    ELSE ESRCH

\* The aggregate after the loop.
group_error(ok, first_error) ==
    IF ok # 0 THEN 0
    ELSE IF first_error # 0 THEN first_error
    ELSE ESRCH

\* procctl(P_PGID, id, com, data) by a thread of curp, up to the first
\* member of the group or to an early return.  found is whether pgfind finds
\* a group with this id: the group of init.
GroupEnter(curp, rq, priv, found) ==
    /\ pc = "idle"
    /\ curp \in Live(proc) /\ proc[curp].p_state = "PRS_NORMAL"
    /\ td' = curp
    /\ tp' = NULL
    /\ plocks' = {}
    /\ IF rq.com \in PidOnly
       THEN /\ pc' = "done"
            /\ pg' = [NoPg EXCEPT !.com = rq.com]
            /\ ret' = [NoRet EXCEPT !.com = "P_PGID", !.error = EINVAL]
            /\ proctree_lock' = "unlocked"
       ELSE IF ~found
       THEN /\ pc' = "done"
            /\ pg' = [NoPg EXCEPT !.com = rq.com, !.state = rq.state,
                                  !.op = rq.op, !.bits = rq.bits, !.priv = priv]
            /\ ret' = [NoRet EXCEPT !.com = "P_PGID", !.error = ESRCH]
            /\ proctree_lock' = "unlocked"
       ELSE /\ pc' = "pg_visit"
            /\ pg' = [NoPg EXCEPT !.com = rq.com, !.state = rq.state,
                                  !.op = rq.op, !.bits = rq.bits, !.priv = priv,
                                  !.members = pg_members(proc), !.k = 1]
            /\ ret' = ret
            /\ proctree_lock' = "slock"
    /\ UNCHANGED <<treevars, gp, rk, pt, tc, mt>>

\* One turn of the LIST_FOREACH: the member is locked, passed over if it is
\* PRS_NEW or p_cansee refuses (cansee), else given to kern_procctl_single,
\* and unlocked.
GroupVisit(cansee, sched) ==
    /\ pc = "pg_visit"
    /\ pg.k <= Len(pg.members)
    /\ LET p == pg.members[pg.k]
           r == kern_procctl_single(proc, td, p, pg, pg.priv, sched)
       IN  IF proc[p].p_state = "PRS_NEW" \/ cansee # 0
           THEN /\ pg' = [pg EXCEPT !.k = @ + 1, !.skipped = @ \cup {p}]
                /\ proc' = proc
           ELSE /\ pg' = [pg EXCEPT
                            !.k = @ + 1,
                            !.ok = IF r.error = 0 THEN 1 ELSE @,
                            !.first_error = IF r.error # 0 /\ @ = 0 THEN r.error ELSE @,
                            !.invoked = Append(@, [p |-> p, error |-> r.error])]
                /\ proc' = r.proc
    /\ UNCHANGED <<lastpid, ret, callvars, gp, rk, pt, tc, mt>>

\* The list is at its end: the aggregate is the result and the tree lock
\* is dropped.
GroupReturn ==
    /\ pc = "pg_visit"
    /\ pg.k > Len(pg.members)
    /\ pc' = "done"
    /\ ret' = [NoRet EXCEPT !.com = "P_PGID",
                            !.error = group_error(pg.ok, pg.first_error)]
    /\ proctree_lock' = "unlocked"
    /\ UNCHANGED <<treevars, td, tp, plocks, opvars>>

\* The system call is over.
GroupDone ==
    /\ pc = "done"
    /\ pc' = "idle"
    /\ td' = NULL
    /\ ret' = NoRet
    /\ pg' = NoPg
    /\ UNCHANGED <<treevars, tp, proctree_lock, plocks, gp, rk, pt, tc, mt>>

\* init forks; the child is linked into the tree and the group, and is
\* PRS_NEW: not fully made yet.  One fork is under way at a time.
GroupFork ==
    /\ pc = "idle"
    /\ TreeFree
    /\ \A p \in Live(proc) : proc[p].p_state = "PRS_NORMAL"
    /\ Cardinality(Live(proc)) < MaxGroup
    /\ lastpid < MaxPid
    /\ proc' = [fork1(proc, initproc, FreeSlot(proc), lastpid + 1)
                    EXCEPT ![FreeSlot(proc)].p_state = "PRS_NEW"]
    /\ lastpid' = lastpid + 1
    /\ UNCHANGED <<ret, callvars, opvars>>

\* fork1 makes the child PRS_NORMAL at its end, under the child's lock
\* alone.
ForkReady(p) ==
    /\ p \in Live(proc)
    /\ proc[p].p_state = "PRS_NEW"
    /\ pc # "done"
    /\ proc' = [proc EXCEPT ![p].p_state = "PRS_NORMAL"]
    /\ UNCHANGED <<lastpid, ret, callvars, opvars>>

\* ktrace(2) beside the calls on the group, on one process at a time.
GroupKtrace(p) ==
    /\ \A q \in Proc \ {p} : proc[q].p_traceflag = 0
    /\ Ktrace(p)

\* The group is the one of init, and a thread of init makes the calls.
GroupNext ==
    \/ GroupFork
    \/ \E p \in Proc : ForkReady(p)
    \/ \E p \in Proc : GroupKtrace(p)
    \/ /\ pc = "idle"
       /\ \E rq \in GroupRequests, found \in BOOLEAN :
             GroupEnter(initproc, rq, 0, found)
    \/ /\ pc = "pg_visit"
       /\ pg.k <= Len(pg.members)
       /\ \E cansee \in {0, ESRCH} : GroupVisit(cansee, {})
    \/ GroupReturn
    \/ GroupDone

SpecGroup == Init /\ [][GroupNext]_vars

(* --------------- the tree lock among several threads ------------------- *)
\* The commands kern_procctl runs with the tree lock shared.
SharedCom == {"PROC_SPROTECT", "PROC_REAP_STATUS", "PROC_REAP_GETPIDS",
              "PROC_REAP_KILL", "PROC_TRACE_CTL"}

\* The commands it runs with the tree lock exclusive.
ExclusiveCom == {"PROC_REAP_ACQUIRE", "PROC_REAP_RELEASE"}

\* Faulty variant of lock_mode: PROC_REAP_RELEASE takes the lock shared.
lock_mode_release_shared(com) ==
    IF com \in SharedCom \cup {"PROC_REAP_RELEASE"} THEN "slock"
    ELSE IF com \in ExclusiveCom THEN "xlock"
    ELSE IF com = "PROC_TRACE_STATUS" THEN "none"
    ELSE "EINVAL"

\* The second switch (com) of kern_procctl: how the tree lock is taken.
lock_mode(com) ==
    IF com \in SharedCom THEN "slock"
    ELSE IF com \in ExclusiveCom THEN "xlock"
    ELSE IF com = "PROC_TRACE_STATUS" THEN "none"
    ELSE "EINVAL"

\* sx_slock, sx_xlock: when the caller gets the lock, and the holders then.
sx_can_slock(m) == m.xowner = 0
sx_can_xlock(m) == m.xowner = 0 /\ m.sowners = {}
sx_slock(m, t) == [m EXCEPT !.sowners = @ \cup {t}]
sx_xlock(m, t) == [m EXCEPT !.xowner = t]
\* sx_unlock, sx_sunlock by a holder.
sx_unlock(m, t) ==
    IF m.xowner = t THEN [m EXCEPT !.xowner = 0]
    ELSE [m EXCEPT !.sowners = @ \ {t}]

\* Thread t holds the tree lock, in either mode.
Holds(m, t) == m.xowner = t \/ t \in m.sowners

MtAt(t, where) == mt.thr[t].pc = where

\* Thread t goes on to where; com and idtype are kept as long as the code
\* still looks at them.
MtGo(m, t, where) ==
    [m EXCEPT !.thr[t] =
        IF where \in {"switch", "single"} THEN [@ EXCEPT !.pc = where]
        ELSE [NoThread EXCEPT !.pc = where, !.tree_locked = m.thr[t].tree_locked]]

\* Thread t enters kern_procctl(td, idtype, id, com, data): the first
\* switch (com) returns EINVAL for a command that needs P_PID.
MtCall(t, com, idtype) ==
    /\ MtAt(t, "idle")
    /\ mt' = [mt EXCEPT !.thr[t] =
                 IF com \in PidOnly /\ idtype # "P_PID"
                 THEN [NoThread EXCEPT !.pc = "ret"]
                 ELSE [pc |-> "lock", com |-> com, idtype |-> idtype,
                       tree_locked |-> FALSE]]

\* The second switch (com): t takes the tree lock in the mode of the
\* command, waiting for it if it must, or takes none, or returns EINVAL.
MtLock(t) ==
    /\ MtAt(t, "lock")
    /\ LET mode == lock_mode(mt.thr[t].com)
       IN  \/ /\ mode = "slock" /\ sx_can_slock(mt)
              /\ mt' = [sx_slock(mt, t) EXCEPT !.thr[t].pc = "switch",
                                               !.thr[t].tree_locked = TRUE]
           \/ /\ mode = "xlock" /\ sx_can_xlock(mt)
              /\ mt' = [sx_xlock(mt, t) EXCEPT !.thr[t].pc = "switch",
                                               !.thr[t].tree_locked = TRUE]
           \/ /\ mode = "none"
              /\ mt' = MtGo(mt, t, "switch")
           \/ /\ mode = "EINVAL"
              /\ mt' = MtGo(mt, t, "ret")

\* switch (idtype): with P_PID the process found and visible, with P_PGID
\* the next member of the group found that is, goes to kern_procctl_single
\* (found); without one, or with another idtype, the switch is left.
MtSwitch(t, found) ==
    /\ MtAt(t, "switch")
    /\ mt' = MtGo(mt, t, IF found /\ mt.thr[t].idtype \in {"P_PID", "P_PGID"}
                         THEN "single" ELSE "unlock")

\* kern_procctl_single returns; reap_getpids first drops the tree lock
\* after it has counted.
MtSingle(t) ==
    /\ MtAt(t, "single")
    /\ mt' = IF mt.thr[t].com = "PROC_REAP_GETPIDS"
             THEN MtGo(sx_unlock(mt, t), t, "gp_malloc")
             ELSE MtGo(mt, t, IF mt.thr[t].idtype = "P_PGID" THEN "switch"
                               ELSE "unlock")

\* reap_getpids: malloc done, sx_slock for the fill.
MtGpSlock(t) ==
    /\ MtAt(t, "gp_malloc")
    /\ sx_can_slock(mt)
    /\ mt' = MtGo(sx_slock(mt, t), t, "gp_fill")

\* reap_getpids: the fill done, sx_sunlock for the copyout.
MtGpSunlock(t) ==
    /\ MtAt(t, "gp_fill")
    /\ mt' = MtGo(sx_unlock(mt, t), t, "gp_copyout")

\* reap_getpids: copyout done, sx_slock again, and return.
MtGpRelock(t) ==
    /\ MtAt(t, "gp_copyout")
    /\ sx_can_slock(mt)
    /\ mt' = MtGo(sx_slock(mt, t), t, "unlock")

\* if (tree_locked) sx_unlock(&proctree_lock)
MtUnlock(t) ==
    /\ MtAt(t, "unlock")
    /\ mt' = MtGo(IF mt.thr[t].tree_locked THEN sx_unlock(mt, t) ELSE mt, t, "ret")

\* return (error)
MtReturn(t) ==
    /\ MtAt(t, "ret")
    /\ mt' = [mt EXCEPT !.thr[t] = NoThread]

\* Every thread takes its steps in any order with the others; nothing but
\* the lock and the threads' places changes.
MtNext ==
    \/ \E t \in Threads,
          com \in SharedCom \cup ExclusiveCom \cup {"PROC_TRACE_STATUS", "other"},
          idtype \in {"P_PID", "P_PGID", "other"} :
          MtCall(t, com, idtype) /\ UNCHANGED <<treevars, ret, callvars, gp, rk, pt, tc, pg>>
    \/ \E t \in Threads : MtLock(t) /\ UNCHANGED <<treevars, ret, callvars, gp, rk, pt, tc, pg>>
    \/ \E t \in Threads, found \in BOOLEAN : MtSwitch(t, found) /\ UNCHANGED <<treevars, ret, callvars, gp, rk, pt, tc, pg>>
    \/ \E t \in Threads : MtSingle(t) /\ UNCHANGED <<treevars, ret, callvars, gp, rk, pt, tc, pg>>
    \/ \E t \in Threads : MtGpSlock(t) /\ UNCHANGED <<treevars, ret, callvars, gp, rk, pt, tc, pg>>
    \/ \E t \in Threads : MtGpSunlock(t) /\ UNCHANGED <<treevars, ret, callvars, gp, rk, pt, tc, pg>>
    \/ \E t \in Threads : MtGpRelock(t) /\ UNCHANGED <<treevars, ret, callvars, gp, rk, pt, tc, pg>>
    \/ \E t \in Threads : MtUnlock(t) /\ UNCHANGED <<treevars, ret, callvars, gp, rk, pt, tc, pg>>
    \/ \E t \in Threads : MtReturn(t) /\ UNCHANGED <<treevars, ret, callvars, gp, rk, pt, tc, pg>>

SpecThreads == Init /\ [][MtNext]_vars

(* ------------------------------- claims -------------------------------- *)

\* C2: a successful release by a process P other than init (which P can
\* only make after a successful acquire of its own) leaves P no reaper and
\* P's reap list empty, and every record that was in P's reap list has P's
\* own reaper as its reaper and is indexed in that reaper's reap list.
C2_AcquireThenRelease ==
    (ret.com = "PROC_REAP_RELEASE" /\ ret.error = 0) =>
        /\ ~is_reaper(proc, ret.p)
        /\ proc[ret.p].p_reaplist = <<>>
        /\ \A q \in ret.moved :
              /\ proc[q].p_reaper = proc[ret.p].p_reaper
              /\ q \in SeqToSet(proc[proc[ret.p].p_reaper].p_reaplist)

\* C2 witness: P released after acquiring and forking, so records moved.
C2_Witness ==
    /\ ret.com = "PROC_REAP_RELEASE" /\ ret.error = 0
    /\ ret.p # initproc /\ ret.moved # {}

\* C3 as stated: the reap list of every record R is exactly the set of live
\* records whose reaper field is R.
C3_I2_AsStated ==
    \A r \in Proc :
        SeqToSet(proc[r].p_reaplist) = {q \in Live(proc) : proc[q].p_reaper = r}

\* C3 as amended: the reap list of every record R is exactly the set of live
\* records other than init whose reaper field is R, without repetition, so
\* that every live record but init is in exactly one reap list; init, its
\* own reaper, is in none.
C3_I2 ==
    /\ \A r \in Proc :
          /\ SeqToSet(proc[r].p_reaplist) =
                {q \in Live(proc) \ {initproc} : proc[q].p_reaper = r}
          /\ NoDup(proc[r].p_reaplist)
    /\ \A q \in Live(proc) \ {initproc} :
          Cardinality({r \in Proc : q \in SeqToSet(proc[r].p_reaplist)}) = 1

\* C3 witness: a release has just re-indexed records under another reaper
\* while a third process is alive.
C3_Witness ==
    /\ ret.com = "PROC_REAP_RELEASE" /\ ret.error = 0 /\ ret.moved # {}
    /\ Cardinality(Live(proc)) = MaxLive

\* C4 (I1): the reaper of init is init itself, and the reaper of every other
\* live process is a strict ancestor of it that is a reaper.
C4_I1 ==
    \A p \in Live(proc) :
        IF p = initproc THEN proc[p].p_reaper = p
        ELSE /\ proc[p].p_reaper \in Ancestors(proc, p)
             /\ proc[p].p_reaper \in Live(proc)
             /\ is_reaper(proc, proc[p].p_reaper)

\* C4 witness: a process whose parent became a reaper after forking it, so
\* that its reaper is not its parent but an ancestor further up.
C4_Witness ==
    \E p \in Live(proc) \ {initproc} :
        /\ proc[p].p_reaper # proc[p].p_pptr
        /\ is_reaper(proc, proc[p].p_pptr)

\* C5 as stated: a release whose target is init fails with EINVAL whoever
\* calls, and changes nothing.
C5_ReleaseInit_AsStated ==
    [][\A c \in Proc :
          (ret'.com = "PROC_REAP_RELEASE" /\ ret'.p = initproc /\ ret'.self = (c = initproc)
              /\ SysReap(c, "PROC_REAP_RELEASE", initproc)) =>
              (ret'.error = EINVAL /\ proc' = proc)]_vars

\* C5 as amended: a release whose target is init fails with EINVAL when init
\* itself calls and with EPERM when any other process calls, and in both
\* cases leaves init a reaper and the process table unchanged.
C5_ReleaseInit ==
    [][\A c \in Proc :
          (ret'.com = "PROC_REAP_RELEASE" /\ ret'.p = initproc /\ ret'.self = (c = initproc)
              /\ SysReap(c, "PROC_REAP_RELEASE", initproc)) =>
              /\ ret'.error = (IF c = initproc THEN EINVAL ELSE EPERM)
              /\ is_reaper(proc', initproc)
              /\ proc' = proc]_vars

\* C5 witness: init has descendants and its release was just refused.
C5_Witness ==
    /\ ret.com = "PROC_REAP_RELEASE" /\ ret.p = initproc /\ ret.self
    /\ ret.error = EINVAL
    /\ proc[initproc].p_reaplist # <<>>

\* C6 as stated: an acquire whose target is already a reaper fails with
\* EBUSY whoever calls, and changes nothing.
C6_AcquireActive_AsStated ==
    [][\A c \in Proc, p \in Proc :
          (ret'.com = "PROC_REAP_ACQUIRE" /\ ret'.p = p /\ ret'.self = (c = p)
              /\ is_reaper(proc, p) /\ SysReap(c, "PROC_REAP_ACQUIRE", p)) =>
              (ret'.error = EBUSY /\ proc' = proc)]_vars

\* C6 as amended: an acquire whose target is already a reaper fails with
\* EBUSY when the target itself calls and with EPERM when any other process
\* calls, and in both cases changes no flag, reaper field or reap list.
C6_AcquireActive ==
    [][\A c \in Proc, p \in Proc :
          (ret'.com = "PROC_REAP_ACQUIRE" /\ ret'.p = p /\ ret'.self = (c = p)
              /\ is_reaper(proc, p) /\ SysReap(c, "PROC_REAP_ACQUIRE", p)) =>
              /\ ret'.error = (IF c = p THEN EBUSY ELSE EPERM)
              /\ proc' = proc]_vars

\* C6 witness: a process other than init that is a reaper was refused a
\* second acquire.
C6_Witness ==
    /\ ret.com = "PROC_REAP_ACQUIRE" /\ ret.p # initproc /\ ret.self
    /\ ret.error = EBUSY

\* C7: what get_pids copies out is never more than rp_count entries and never
\* more than the reap list held when it was counted, whatever happened to
\* the list between the count and the fill.
C7_GetpidsBounded ==
    (pc = "done" /\ ret.com = "PROC_REAP_GETPIDS") =>
        /\ Len(gp.pi) = gp.i
        /\ gp.i <= gp.rp_count
        /\ gp.i <= gp.counted

\* C7 witness: the list grew by a fork between the count and the fill, and
\* the call returned as many entries as it had counted.
C7_Witness ==
    /\ pc = "done" /\ ret.com = "PROC_REAP_GETPIDS"
    /\ gp.grown /\ gp.counted >= 1 /\ gp.i = gp.counted

\* C8: every entry get_pids returns was an entry of the resolved reaper's reap
\* list (that pid, with that subtree tag and that direct-child flag) at some
\* instant of the call, and no pid is returned twice.
C8_GetpidsGenuine ==
    (pc = "done" /\ ret.com = "PROC_REAP_GETPIDS") =>
        /\ \A k \in 1..Len(gp.pi) : gp.pi[k] \in gp.seen
        /\ \A k, l \in 1..Len(gp.pi) : gp.pi[k].pi_pid = gp.pi[l].pi_pid => k = l

(* ---------------------- C9, C10: reap_kill ------------------------------ *)
\* A PROC_REAP_KILL call has returned / has returned after walking its list.
KillDone == pc = "done" /\ ret.com = "PROC_REAP_KILL"
KillRan == KillDone /\ ~kill_refused(rk)

\* The candidates the walk checked before the first one it signalled.
FailedFirst(tr) ==
    {tr[i].pid : i \in {k \in 1..Len(tr) : \A j \in 1..k : tr[j].error1 # 0}}

\* The candidates of the reaper the call resolves: its list, narrowed to
\* the members tagged rk_subtree with REAPER_KILL_SUBTREE.
kill_candidates(pr, p, r) ==
    LET l == kill_list(pr, ResolveReaper(pr, p), r.rk_flags)
    IN  {l[i] : i \in {k \in 1..Len(l) :
            "REAPER_KILL_SUBTREE" \in r.rk_flags => pr[l[k]].p_reapsubtree = r.rk_subtree}}

\* C9 as stated: whenever a kill signalled at least one process, it returns
\* success and rk_fpid names no process, whatever the order of the list.
C9_KillSuccess_AsStated ==
    (KillRan /\ rk.rk_killed > 0) => (ret.error = 0 /\ rk.rk_fpid = NOPID)

\* C9 amended: whenever a kill signalled at least one process it returns
\* success and rk_killed counts the processes signalled; rk_fpid is kept
\* from before the first signal: it names no process exactly when the first
\* candidate checked was signalled, and otherwise names a candidate refused
\* before the first signalled one.  With REAPER_KILL_CHILDREN, three
\* children and exactly one refused, rk_killed is 2.
C9_KillSuccess ==
    (KillRan /\ rk.rk_killed > 0) =>
        /\ ret.error = 0
        /\ rk.rk_killed = Len(rk.sent)
        /\ (rk.rk_fpid = NOPID) = (rk.tried[1].error1 = 0)
        /\ rk.rk_fpid # NOPID => rk.rk_fpid \in FailedFirst(rk.tried)
        /\ ( /\ "REAPER_KILL_CHILDREN" \in rk.rk_flags
             /\ Len(proc[rk.reap].p_children) = 3
             /\ Cardinality({i \in 1..Len(rk.tried) : rk.tried[i].error1 # 0}) = 1 )
           => rk.rk_killed = 2

\* A kill of three children refused the first and signalled the other two:
\* it returned success with rk_fpid naming the refused child.
C9_Witness ==
    /\ KillRan
    /\ "REAPER_KILL_CHILDREN" \in rk.rk_flags
    /\ Len(rk.tried) = 3
    /\ rk.tried[1].error1 = EPERM
    /\ rk.rk_killed = 2
    /\ ret.error = 0
    /\ rk.rk_fpid = rk.tried[1].pid

\* C10: a kill with a valid signal, outside capability mode, whose
\* candidate set is empty (the reaper has no member in the walked list, or
\* REAPER_KILL_SUBTREE names a tag no member carries) returns ESRCH, has
\* signalled nothing and reports rk_killed 0.
C10_KillEmpty ==
    ( /\ KillDone
      /\ ~rk.capmode
      /\ rk.rk_sig \in 1..SIG_MAXSIG
      /\ kill_candidates(proc, tp, rk) = {} )
    => (ret.error = ESRCH /\ rk.sent = <<>> /\ rk.rk_killed = 0)

(* ---------------------- C1: protect_set -------------------------------- *)
\* The subtree rooted at top, by parent links.
Subtree(pr, top) == {q \in Live(pr) : q = top \/ top \in Ancestors(pr, q)}

\* A PROC_SPROTECT call with PPROT_SET | PPROT_DESCEND and valid option bits
\* by a privileged caller has returned.
SetDescendDone ==
    /\ pc = "done"
    /\ ret.com = "PROC_SPROTECT"
    /\ pt.op = PPROT_SET
    /\ "PPROT_DESCEND" \in pt.bits
    /\ protect_check(pt.op, pt.bits, pt.priv) = 0

\* C1: after protect_set with PPROT_SET | PPROT_DESCEND on top by a
\* privileged caller, every process of the subtree of top that is not a
\* system process and that the caller can schedule has P_PROTECTED, every
\* process outside the subtree is as it was, and the same call made again
\* changes no process and returns what the first returned.
C1_ProtectDescend ==
    SetDescendDone =>
        /\ \A q \in Subtree(proc, tp) :
              ("P_SYSTEM" \notin proc[q].p_flag /\ q \in pt.sched)
                  => "P_PROTECTED" \in proc[q].p_flag
        /\ \A q \in Proc \ Subtree(proc, tp) : proc[q] = pt.before[q]
        /\ protect_set(proc, tp, pt.op, pt.bits, pt.priv, pt.sched).proc = proc
        /\ protect_set(proc, tp, pt.op, pt.bits, pt.priv, pt.sched).error = ret.error

\* Such a call on a process other than init, with two descendants: it
\* protected a process that was not and left unprotected one the caller
\* cannot schedule.
C1_Witness ==
    /\ SetDescendDone
    /\ tp # initproc
    /\ Cardinality(Subtree(proc, tp)) = 3
    /\ ret.error = 0
    /\ \E q \in Subtree(proc, tp) :
          "P_PROTECTED" \in proc[q].p_flag /\ "P_PROTECTED" \notin pt.before[q].p_flag
    /\ \E q \in Subtree(proc, tp) :
          /\ "P_SYSTEM" \notin proc[q].p_flag
          /\ q \notin pt.sched /\ "P_PROTECTED" \notin proc[q].p_flag

(* ---------------------- C11, C12: reap_kill ---------------------------- *)
\* The pids of the members of list l, in order.
Pids(pr, l) == [k \in 1..Len(l) |-> pr[l[k]].p_pid]

\* The pids of the candidates in tr that passed p_cansignal, in order.
Passed(tr) ==
    LET ok == SelectSeq(tr, LAMBDA e : e.error1 = 0)
    IN  [k \in 1..Len(ok) |-> ok[k].pid]

\* C11: a kill with REAPER_KILL_SUBTREE among its flags (alone or with
\* REAPER_KILL_CHILDREN), a valid signal and no capability mode is not
\* refused: it walks its list, checks exactly the members tagged rk_subtree
\* and signals those of them that pass p_cansignal.
C11_KillSubtreeAccepted ==
    ( /\ KillDone
      /\ ~rk.capmode
      /\ rk.rk_sig \in 1..SIG_MAXSIG
      /\ "REAPER_KILL_SUBTREE" \in rk.rk_flags )
    => /\ ~kill_refused(rk)
       /\ {rk.tried[k].pid : k \in 1..Len(rk.tried)} =
             {proc[q].p_pid : q \in kill_candidates(proc, tp, rk)}
       /\ rk.sent = Passed(rk.tried)

\* C12: a kill that walked its list checked every member of it once, in
\* list order, whatever p_cansignal answered; it signalled each member that
\* passed once and no member that failed, and rk_killed is the number that
\* passed.
C12_KillAll ==
    KillRan =>
        /\ [k \in 1..Len(rk.tried) |-> rk.tried[k].pid] =
              Pids(proc, kill_list(proc, rk.reap, rk.rk_flags))
        /\ rk.sent = Passed(rk.tried)
        /\ NoDup(rk.sent)
        /\ rk.rk_killed = Len(Passed(rk.tried))

\* A kill over three candidates failed on the first and on the second and
\* still signalled the third.
C12_Witness ==
    /\ KillRan
    /\ Len(rk.tried) = 3
    /\ rk.tried[1].error1 = EPERM
    /\ rk.tried[2].error1 = ESRCH
    /\ rk.tried[3].error1 = 0
    /\ rk.rk_killed = 1

(* ---------------------- C13, C14, C15: trace control ------------------- *)
\* The target of the last trace_ctl was traced or under ktrace before it.
TcBusy == "P_TRACED" \in tc.pre.p_flag \/ tc.pre.p_traceflag # 0

\* C13: a trace_status on a process whose last trace_ctl was a successful
\* PROC_TRACE_CTL_DISABLE_EXEC, whoever made either call and whatever the
\* no-trace flags were before, succeeds and stores -1.
C13_ExecDisableStatus ==
    (ret.com = "PROC_TRACE_STATUS" /\ tc.execdis[ret.p]) =>
        (ret.error = 0 /\ tc.data = -1 /\ tc.kassert)

\* A process other than the target asked for the status of a process that
\* had been given PROC_TRACE_CTL_DISABLE_EXEC.
C13_Witness ==
    /\ ret.com = "PROC_TRACE_STATUS" /\ tc.execdis[ret.p]
    /\ ~ret.self /\ ret.p # initproc /\ tc.data = -1

\* C14 as stated: a trace_ctl on a target that is traced, is under ktrace
\* or has a no-trace flag set fails with EBUSY and changes no flag.
C14_TraceBusy_AsStated ==
    ( /\ ret.com = "PROC_TRACE_CTL"
      /\ TcBusy \/ tc.pre.p_flag2 \cap {"P2_NOTRACE", "P2_NOTRACE_EXEC"} # {} )
    => (ret.error = EBUSY /\ proc[ret.p] = tc.pre)

\* C14 amended: a trace_ctl fails with EBUSY, changing no flag, exactly when
\* the target is traced or under ktrace; the no-trace flags never make it
\* busy: PROC_TRACE_CTL_DISABLE on a target that has P2_NOTRACE alone and
\* PROC_TRACE_CTL_DISABLE_EXEC on a target that has both flags succeed and
\* leave the flags as they were.
C14_TraceBusy ==
    ret.com = "PROC_TRACE_CTL" =>
        /\ TcBusy => (ret.error = EBUSY /\ proc[ret.p] = tc.pre)
        /\ ~TcBusy => ret.error # EBUSY
        /\ ( /\ ~TcBusy
             /\ tc.state = PROC_TRACE_CTL_DISABLE
             /\ tc.pre.p_flag2 \cap {"P2_NOTRACE", "P2_NOTRACE_EXEC"} = {"P2_NOTRACE"} )
           => (ret.error = 0 /\ proc[ret.p] = tc.pre)
        /\ ( /\ ~TcBusy
             /\ tc.state = PROC_TRACE_CTL_DISABLE_EXEC
             /\ {"P2_NOTRACE", "P2_NOTRACE_EXEC"} \subseteq tc.pre.p_flag2 )
           => (ret.error = 0 /\ proc[ret.p] = tc.pre)

\* A PROC_TRACE_CTL_DISABLE on a target with P2_NOTRACE already set was
\* accepted, and one on a target under ktrace alone was refused.
C14_Witness ==
    /\ ret.com = "PROC_TRACE_CTL"
    /\ \/ /\ ~TcBusy
          /\ tc.state = PROC_TRACE_CTL_DISABLE
          /\ "P2_NOTRACE" \in tc.pre.p_flag2
          /\ ret.error = 0
       \/ /\ tc.pre.p_traceflag # 0
          /\ "P_TRACED" \notin tc.pre.p_flag
          /\ "P2_NOTRACE" \in tc.pre.p_flag2
          /\ ret.error = EBUSY

\* C15: in every state reached from no-trace flags clear by trace_ctl calls
\* of any state and caller (and forks, which copy the flags), a process
\* with P2_NOTRACE_EXEC has P2_NOTRACE, the KASSERT of the last trace call
\* held, and it would hold in any trace_ctl made now.
C15_NoDanglingExec ==
    /\ \A p \in Live(proc) :
          "P2_NOTRACE_EXEC" \in proc[p].p_flag2 => "P2_NOTRACE" \in proc[p].p_flag2
    /\ tc.kassert
    /\ \A c \in Live(proc), p \in Live(proc), state \in 1..4 :
          trace_ctl(proc, c, p, state).kassert

\* A PROC_TRACE_CTL_DISABLE by a process on itself cleared its
\* P2_NOTRACE_EXEC: the case that holds the KASSERT was run.
C15_Witness ==
    /\ ret.com = "PROC_TRACE_CTL" /\ ret.error = 0
    /\ tc.state = PROC_TRACE_CTL_DISABLE
    /\ "P2_NOTRACE_EXEC" \in tc.pre.p_flag2
    /\ "P2_NOTRACE_EXEC" \notin proc[ret.p].p_flag2
    /\ "P2_NOTRACE" \in proc[ret.p].p_flag2

(* ---------------------- C16: process-group target ---------------------- *)
GroupRan == pc = "done" /\ ret.com = "P_PGID" /\ pg.members # <<>>

\* The members of the group the loop did not pass over, in list order.
NotSkipped == SelectSeq(pg.members, LAMBDA m : m \notin pg.skipped)

\* C16: when a call on a process group has gone through the list, the
\* command was given once, in list order, to every member that was not
\* passed over as PRS_NEW or invisible, whatever the members before it
\* returned; a PROC_TRACE_CTL_DISABLE_EXEC left its flags on every member
\* that took it; and the call returns 0 if a member returned 0, else what
\* the first member given the command returned, else ESRCH when none was.
C16_GroupAggregate ==
    GroupRan =>
        /\ [k \in 1..Len(pg.invoked) |-> pg.invoked[k].p] = NotSkipped
        /\ \A k \in 1..Len(pg.invoked) :
              /\ proc[pg.invoked[k].p].p_state = "PRS_NORMAL"
              /\ ( /\ pg.state = PROC_TRACE_CTL_DISABLE_EXEC
                   /\ pg.invoked[k].error = 0 )
                 => {"P2_NOTRACE", "P2_NOTRACE_EXEC"}
                        \subseteq proc[pg.invoked[k].p].p_flag2
        /\ ret.error = IF \E k \in 1..Len(pg.invoked) : pg.invoked[k].error = 0
                       THEN 0
                       ELSE IF pg.invoked # <<>> THEN pg.invoked[1].error
                       ELSE ESRCH

\* A group of four: one member passed over, one returned EPERM, two
\* returned 0, and the call returned 0.
C16_Witness ==
    /\ GroupRan
    /\ Len(pg.members) = 4
    /\ Cardinality(pg.skipped) = 1
    /\ Cardinality({k \in 1..Len(pg.invoked) : pg.invoked[k].error = EPERM}) = 1
    /\ Cardinality({k \in 1..Len(pg.invoked) : pg.invoked[k].error = 0}) = 2
    /\ ret.error = 0

(* ---------------------- C17: the tree lock ----------------------------- *)
\* The places of a thread inside reap_acquire or reap_release.
InExclusiveOp(t) == MtAt(t, "single") /\ mt.thr[t].com \in ExclusiveCom

\* C17: a thread inside reap_acquire or reap_release holds the tree lock
\* exclusively and no other thread holds it in any mode; a thread inside
\* protect_set, reap_status, reap_kill, trace_ctl or the count or the fill
\* of reap_getpids holds it; a thread inside trace_status holds none; and a
\* thread that returns from kern_procctl holds none.
C17_TreeLock ==
    \A t \in Threads :
        /\ InExclusiveOp(t) =>
              /\ mt.xowner = t /\ mt.sowners = {}
              /\ \A u \in Threads \ {t} : ~Holds(mt, u)
        /\ ( \/ MtAt(t, "single") /\ mt.thr[t].com \in SharedCom
             \/ MtAt(t, "gp_fill") ) => t \in mt.sowners
        /\ (MtAt(t, "single") /\ mt.thr[t].com = "PROC_TRACE_STATUS") => ~Holds(mt, t)
        /\ MtAt(t, "ret") => ~Holds(mt, t)
        /\ MtAt(t, "idle") => ~Holds(mt, t)

\* One thread is inside reap_release with the lock exclusive while another
\* is inside trace_status.
C17_Witness ==
    \E t \in Threads, u \in Threads :
        /\ InExclusiveOp(t) /\ mt.thr[t].com = "PROC_REAP_RELEASE"
        /\ MtAt(u, "single") /\ mt.thr[u].com = "PROC_TRACE_STATUS"

(* ---------------------- C18: the walk of the subtree ------------------- *)
\* protect_setchildren is walking the subtree of tp.
InWalk == pc = "ps_visit" /\ "PPROT_DESCEND" \in pt.bits

\* What holds at every step of the walk: no process was visited twice, none
\* outside the subtree of tp, one PROC_LOCK is held: that of the process to
\* visit next, which is in the subtree and was not visited yet, or, after
\* the last visit, that of tp, and then every process of the subtree has
\* been visited.
WalkSafe ==
    InWalk =>
        /\ NoDup(pt.visited)
        /\ SeqToSet(pt.visited) \subseteq Subtree(proc, tp)
        /\ Cardinality(plocks) <= 1
        /\ pt.p # NULL =>
              /\ plocks = {pt.p}
              /\ pt.p \in Subtree(proc, tp) \ SeqToSet(pt.visited)
        /\ pt.p = NULL => (plocks = {tp} /\ SeqToSet(pt.visited) = Subtree(proc, tp))

\* C18: the walk of protect_setchildren always comes to its end, and at
\* every step of it no process was visited twice or lies outside the
\* subtree of top, at most one PROC_LOCK is held, and at the end every
\* process of the subtree has been visited and the lock held is top's.
C18_Walk == []WalkSafe /\ ((pc = "ps_visit") ~> (pc = "done"))

\* The walk of a process that has a child and a sibling is over: the two
\* processes of its subtree were visited, its sibling was not.
C18_Witness ==
    /\ InWalk /\ pt.p = NULL
    /\ tp # initproc
    /\ Len(pt.visited) = 2
    /\ \E q \in Live(proc) \ {tp} :
          proc[q].p_pptr = proc[tp].p_pptr /\ q \notin SeqToSet(pt.visited)

(* ---------------------- C19: PROC_LOCK balance ------------------------- *)
\* C19: when reap_kill has returned to kern_procctl, on whatever path, the
\* thread holds the PROC_LOCK of the target and no other, and the
\* PROC_UNLOCK(p) that follows the call releases a mutex the thread owns.
C19_ProcLockBalance ==
    KillDone => (rk.held = {tp} /\ rk.unlock = "owned")

(* ---------------------- C20: the assertions of reap_status ------------- *)
\* C20: in every state that forks, exits, reaper acquires and reaper
\* releases lead to, the reaper that reap_status resolves for any process
\* has an empty p_reaplist exactly when it has an empty p_children, so a
\* reap_status on the process holds its KASSERTs, returns 0, and stores -1
\* as rs_pid exactly when that reaper has no child.
C20_StatusAsserts ==
    \A p \in Live(proc) :
        LET reap == ResolveReaper(proc, p)
        IN  /\ (proc[reap].p_reaplist = <<>>) = (proc[reap].p_children = <<>>)
            /\ reap_status(proc, p).kassert
            /\ ~reap_status(proc, p).fault
            /\ reap_status(proc, p).error = 0
            /\ (reap_status(proc, p).rs_pid = NOPID) = (proc[reap].p_children = <<>>)

====
